---------------------------- MODULE Spec2Model ----------------------------
(***************************************************************************)
(* Model of nova/network/service.py: the network services (Flat and Vlan)  *)
(* and the IP lifecycle they drive in the address ledger (nova.db) and the *)
(* topology driver (nova.network.linux_net).                               *)
(*                                                                         *)
(* The service methods are translated from service.py.  The ledger and the *)
(* driver are collaborators whose code is not in service.py; their calls   *)
(* (the db_* and driver_* operators) are modelled from their contracts in  *)
(* spec.md, sections 3, 4 and 6.                                           *)
(***************************************************************************)
EXTENDS Naturals, FiniteSets, Sequences, TLC

(***************************************************************************)
(* Bounds of the model.                                                    *)
(***************************************************************************)
\* number of fixed addresses in the pool of tenantA's network
PoolSize == 2
\* number of instances that ask for fixed addresses
NumInstances == 2
\* number of floating addresses in the host's pool
NumFloating == 2
\* number of network hosts that may call set_network_host concurrently
NumHosts == 2
\* number of instances flagged as VPN endpoints
NumVpnInstances == 1
\* number of concurrent callers of the floating-address operations
NumCallers == 2
\* number of step-wise floating-address operations a caller starts
MaxCalls == 1

\* Every value is a tuple headed by a string, so that any two compare.
None == <<"None">>

TenantA == <<"tenantA">>
TenantB == <<"tenantB">>
Projects == {TenantA, TenantB}
NetA == <<"netA">>
NetB == <<"netB">>
Networks == {NetA, NetB}
Instances == {<<"instance", k>> : k \in 1..NumInstances}
FloatingIPs == {<<"floating", k>> : k \in 1..NumFloating}
Hosts == {<<"host", k>> : k \in 1..NumHosts}
VpnInstances == {<<"vpn-instance", k>> : k \in 1..NumVpnInstances}
Callers == {<<"caller", k>> : k \in 1..NumCallers}

\* The fixed addresses of a network: netA holds PoolSize addresses, netB one.
PoolOf(n) ==
    IF n = NetA THEN {<<"netA", k>> : k \in 1..PoolSize} ELSE {<<"netB", 1>>}
FixedIPs == UNION {PoolOf(n) : n \in Networks}
NetworkOf(a) == <<a[1]>>

\* The errors the operations surface, and the value of a call returning none.
AddressSpaceExhausted == <<"AddressSpaceExhausted">>
AddressNotAllocated == <<"AddressNotAllocated">>
OK == <<"ok">>

VARIABLES
    kind,             \* the service class in use: "flat" or "vlan"
    fixed_allocated,  \* ledger: fixed address -> allocation state
    fixed_leased,     \* ledger: fixed address -> leased flag
    fixed_instance,   \* ledger: fixed address -> associated instance or None
    floating_project, \* ledger: floating address -> owning project or None
    floating_fixed,   \* ledger: floating address -> associated fixed address
    network_host,     \* ledger: network -> host recorded as owner, or None
    network_fields,   \* ledger: network -> topology fields written by the hook
    bound,            \* driver: floating addresses bound to the host
    forwards,         \* driver: forwarding rules <<floating, fixed>>
    bridges,          \* driver: host -> vlan bridges <<vlan, bridge>> ensured
    pc,               \* host -> position in set_network_host
    snh_project,      \* host -> project_id argument of set_network_host
    snh_network,      \* host -> network_id local of set_network_host
    snh_host,         \* host -> host local of set_network_host
    snh_result,       \* host -> value returned by the last set_network_host
    snh_log,          \* host -> collaborator calls its current call completed
    hook_rerun,       \* host -> its current call's hook ran for a network
                      \* this host had already run the hook for
    fpc,              \* caller -> position in its floating-address operation
    f_op,             \* caller -> the operation it runs or ran last
    f_floating,       \* caller -> floating_address argument
    f_fixed,          \* caller -> fixed_address (argument, or ledger's answer)
    f_log,            \* caller -> collaborator calls its operation completed
    f_status,         \* caller -> "running", "returned" or "raised"
    f_calls,          \* caller -> operations it has started
    n_assoc,          \* floating address -> step-wise associations started
    n_dis,            \* floating address -> step-wise disassociations started
    vpn_instance,     \* network -> instance of its reserved VPN address
    vlan_forwards,    \* <<public ip, public port, private ip>> the driver forwards
    setup_calls,      \* driver calls of the last setup_fixed_ip
    tc_type,          \* network_type argument of the last type_to_class
    tc_flag,          \* FLAGS.network_type in force at that call
    tc_result,        \* the class it returned, or the error it raised
    lease_of,         \* fixed address -> instance whose lease the bridge reported
    fresh,            \* network -> no address of it was deallocated/released yet
    nalloc,           \* network -> successful allocations while fresh
    trip,             \* floating address -> progress of a round trip
    ret               \* the last operation, its arguments and its outcome

fixedVars == <<fixed_allocated, fixed_leased, fixed_instance>>
floatVars == <<floating_project, floating_fixed, bound, forwards>>
hostVars == <<network_host, network_fields, bridges, pc, snh_project,
              snh_network, snh_host, snh_result, snh_log, hook_rerun>>
stepVars == <<fpc, f_op, f_floating, f_fixed, f_log, f_status, f_calls,
              n_assoc, n_dis>>
vpnVars == <<vpn_instance, vlan_forwards, setup_calls>>
regVars == <<tc_type, tc_flag, tc_result>>
ghostFixed == <<fresh, nalloc>>
vars == <<kind, fixedVars, vpnVars, floatVars, hostVars, stepVars, regVars,
          lease_of, ghostFixed, trip, ret>>

\* db.project_get_network(context, project_id)['id']
project_get_network(p) == IF p = TenantA THEN NetA ELSE NetB

\* The flags the Flat service writes into the network record.
FLAGS_network_type == "flat"
FLAGS_flat_network_bridge == "br100"
FLAGS_flat_network_network == "192.168.0.0"
FLAGS_flat_network_netmask == "255.255.255.0"
FLAGS_flat_network_gateway == "192.168.0.1"
FLAGS_flat_network_broadcast == "192.168.0.255"
FLAGS_flat_network_dns == "8.8.4.4"

\* The topology fields of a network record no hook has written yet.
NoFields ==
    [injected |-> FALSE, kind |-> "", network_str |-> "", netmask |-> "",
     bridge |-> "", gateway |-> "", broadcast |-> "", dns |-> ""]

\* The vlan tag and the bridge name the ledger holds for a network.
VlanOf(n) == <<"vlan", n[1]>>
BridgeOf(n) == <<"bridge", n[1]>>

\* The VPN fields of a network record, and the address the ledger reserves
\* for the network's VPN endpoint: its VPN private address, outside the pool.
vpn_public_ip_str(n) == <<"vpn_public_ip", n[1]>>
vpn_public_port(n) == <<"vpn_public_port", n[1]>>
vpn_private_ip_str(n) == <<n[1], 0>>
db_network_get_vpn_ip_address(n) == <<n[1], 0>>
VpnIPs == {db_network_get_vpn_ip_address(n) : n \in Networks}
db_instance_is_vpn(i) == i \in VpnInstances

\* The addresses of network n the ledger can hand out.
Available(n) == {a \in PoolOf(n) : ~fixed_allocated[a]}

\* What a call that raised reports: the collaborator call that failed.
Failed(step) == <<"error", step>>

\* ret: the operation, its project, instance and address arguments (None
\* where it has none) and what it returned or raised.
Ret(op, p, i, a, val) ==
    [op |-> op, project |-> p, instance |-> i, addr |-> a, val |-> val]

Init ==
    /\ kind \in {"flat", "vlan"}
    /\ fixed_allocated = [a \in FixedIPs |-> FALSE]
    /\ fixed_leased = [a \in FixedIPs |-> FALSE]
    /\ fixed_instance = [a \in FixedIPs |-> None]
    /\ floating_project = [f \in FloatingIPs |-> None]
    /\ floating_fixed = [f \in FloatingIPs |-> None]
    /\ network_host = [n \in Networks |-> None]
    /\ network_fields = [n \in Networks |-> NoFields]
    /\ bound = {}
    /\ forwards = {}
    /\ bridges = [h \in Hosts |-> {}]
    /\ pc = [h \in Hosts |-> "idle"]
    /\ snh_project = [h \in Hosts |-> None]
    /\ snh_network = [h \in Hosts |-> None]
    /\ snh_host = [h \in Hosts |-> None]
    /\ snh_result = [h \in Hosts |-> None]
    /\ snh_log = [h \in Hosts |-> <<>>]
    /\ hook_rerun = [h \in Hosts |-> FALSE]
    /\ fpc = [c \in Callers |-> "idle"]
    /\ f_op = [c \in Callers |-> "none"]
    /\ f_floating = [c \in Callers |-> None]
    /\ f_fixed = [c \in Callers |-> None]
    /\ f_log = [c \in Callers |-> <<>>]
    /\ f_status = [c \in Callers |-> "returned"]
    /\ f_calls = [c \in Callers |-> 0]
    /\ n_assoc = [f \in FloatingIPs |-> 0]
    /\ n_dis = [f \in FloatingIPs |-> 0]
    /\ vpn_instance = [n \in Networks |-> None]
    /\ vlan_forwards = {}
    /\ setup_calls = <<>>
    /\ tc_type = None
    /\ tc_flag = None
    /\ tc_result = None
    /\ lease_of = [a \in FixedIPs |-> None]
    /\ fresh = [n \in Networks |-> TRUE]
    /\ nalloc = [n \in Networks |-> 0]
    /\ trip = [f \in FloatingIPs |-> "none"]
    /\ ret = Ret("init", None, None, None, None)

(***************************************************************************)
(* The ledger's calls on fixed addresses (nova.db), each atomic.           *)
(***************************************************************************)
\* db.fixed_ip_allocate_address marks the chosen available address allocated
db_fixed_ip_allocate_address(a) == [fixed_allocated EXCEPT ![a] = TRUE]
\* db.fixed_ip_deallocate returns the address to the pool
db_fixed_ip_deallocate(a) == [fixed_allocated EXCEPT ![a] = FALSE]
\* db.fixed_ip_instance_associate records the instance of the address
db_fixed_ip_instance_associate(a, i) == [fixed_instance EXCEPT ![a] = i]
\* db.fixed_ip_instance_disassociate clears the instance of the address
db_fixed_ip_instance_disassociate(a) == [fixed_instance EXCEPT ![a] = None]
\* db.fixed_ip_lease sets the leased flag
db_fixed_ip_lease(a) == [fixed_leased EXCEPT ![a] = TRUE]
\* db.fixed_ip_release clears the leased flag
db_fixed_ip_release(a) == [fixed_leased EXCEPT ![a] = FALSE]

\* Bookkeeping of the allocations of a network since its pool was full.
CountAlloc(n) ==
    /\ nalloc' = [nalloc EXCEPT ![n] = IF fresh[n] THEN @ + 1 ELSE @]
    /\ UNCHANGED fresh
Returned(n) ==
    /\ fresh' = [fresh EXCEPT ![n] = FALSE]
    /\ nalloc' = [nalloc EXCEPT ![n] = 0]

\* allocate_fixed_ip that does not stop on the ledger's exhaustion error and
\* hands out an address of the network that is already allocated.
allocate_fixed_ip_reuse(p, i) ==
    LET network_id == project_get_network(p)
        pool == IF Available(network_id) = {} THEN PoolOf(network_id)
                ELSE Available(network_id) IN
    \E address \in pool :
         /\ fixed_allocated' = db_fixed_ip_allocate_address(address)
         /\ fixed_instance' = db_fixed_ip_instance_associate(address, i)
         /\ UNCHANGED fixed_leased
         /\ CountAlloc(network_id)
         /\ ret' = Ret("allocate_fixed_ip", p, i, None, address)

(***************************************************************************)
(* BaseNetworkService.allocate_fixed_ip                                    *)
(***************************************************************************)
allocate_fixed_ip(p, i) ==
    LET network_id == project_get_network(p) IN
    IF Available(network_id) = {}
    THEN \* db.fixed_ip_allocate_address raises: nothing else runs
         /\ ret' = Ret("allocate_fixed_ip", p, i, None, AddressSpaceExhausted)
         /\ UNCHANGED <<fixedVars, ghostFixed>>
    ELSE \E address \in Available(network_id) :
         /\ fixed_allocated' = db_fixed_ip_allocate_address(address)
         /\ fixed_instance' = db_fixed_ip_instance_associate(address, i)
         /\ UNCHANGED fixed_leased
         /\ CountAlloc(network_id)
         /\ ret' = Ret("allocate_fixed_ip", p, i, None, address)

(***************************************************************************)
(* VlanNetworkService.release_fixed_ip: its two ledger calls               *)
(***************************************************************************)
release_fixed_ip_calls(address) ==
    /\ fixed_leased' = db_fixed_ip_release(address)
    /\ fixed_instance' = db_fixed_ip_instance_disassociate(address)
    /\ UNCHANGED fixed_allocated

(***************************************************************************)
(* BaseNetworkService.deallocate_fixed_ip (the Flat service inherits it)   *)
(***************************************************************************)
Base_deallocate_fixed_ip(address) ==
    /\ fixed_allocated' = db_fixed_ip_deallocate(address)
    /\ fixed_instance' = db_fixed_ip_instance_disassociate(address)
    /\ UNCHANGED fixed_leased

(***************************************************************************)
(* VlanNetworkService.deallocate_fixed_ip                                  *)
(***************************************************************************)
Vlan_deallocate_fixed_ip(address) ==
    IF fixed_leased[address]
    THEN \* we keep instance id until release occurs
         /\ fixed_allocated' = db_fixed_ip_deallocate(address)
         /\ UNCHANGED <<fixed_leased, fixed_instance>>
    ELSE release_fixed_ip_calls(address)

\* deallocate_fixed_ip as dispatched on the service class
deallocate_fixed_ip(address) ==
    /\ IF kind = "vlan"
       THEN Vlan_deallocate_fixed_ip(address)
       ELSE Base_deallocate_fixed_ip(address)
    /\ Returned(NetworkOf(address))
    /\ ret' = Ret("deallocate_fixed_ip", None, None, address, OK)

(***************************************************************************)
(* VlanNetworkService.lease_fixed_ip                                       *)
(***************************************************************************)
lease_fixed_ip(address) ==
    /\ kind = "vlan"
    /\ fixed_leased' = db_fixed_ip_lease(address)
    /\ UNCHANGED <<fixed_allocated, fixed_instance, ghostFixed>>
    /\ ret' = Ret("lease_fixed_ip", None, None, address, OK)

(***************************************************************************)
(* VlanNetworkService.release_fixed_ip                                     *)
(***************************************************************************)
release_fixed_ip(address) ==
    /\ kind = "vlan"
    /\ release_fixed_ip_calls(address)
    /\ Returned(NetworkOf(address))
    /\ ret' = Ret("release_fixed_ip", None, None, address, OK)

(***************************************************************************)
(* The callers of the fixed-address operations.  deallocate_fixed_ip is    *)
(* called for an address that allocate_fixed_ip returned and that was not  *)
(* deallocated since; the bridge reports a lease for an address that is    *)
(* allocated, and a release for an address it reported leased.             *)
(***************************************************************************)
OnlyFixed ==
    UNCHANGED <<kind, vpnVars, floatVars, hostVars, stepVars, regVars,
                lease_of, trip>>

AllocateFixed ==
    /\ \E p \in Projects, i \in Instances : allocate_fixed_ip(p, i)
    /\ OnlyFixed
DeallocateFixed ==
    /\ \E a \in FixedIPs : fixed_allocated[a] /\ deallocate_fixed_ip(a)
    /\ OnlyFixed
LeaseFixed ==
    /\ \E a \in FixedIPs : fixed_allocated[a] /\ lease_fixed_ip(a)
    /\ OnlyFixed
ReleaseFixed ==
    /\ \E a \in FixedIPs : fixed_leased[a] /\ release_fixed_ip(a)
    /\ OnlyFixed

NextFixed ==
    \/ AllocateFixed
    \/ DeallocateFixed
    \/ LeaseFixed
    \/ ReleaseFixed

SpecFixed == Init /\ [][NextFixed]_vars

(***************************************************************************)
(* The bridge's lease reports with the instance each lease belongs to: the *)
(* lease of an address is the lease of the instance that holds the address *)
(* when the bridge reports it.                                             *)
(***************************************************************************)
OnlyLease ==
    UNCHANGED <<kind, vpnVars, floatVars, hostVars, stepVars, regVars, trip>>

LeaseFixedFor ==
    /\ \E a \in FixedIPs :
          /\ fixed_allocated[a]
          /\ lease_fixed_ip(a)
          /\ lease_of' = [lease_of EXCEPT ![a] = fixed_instance[a]]
    /\ OnlyLease
ReleaseFixedFor ==
    /\ \E a \in FixedIPs :
          /\ fixed_leased[a]
          /\ release_fixed_ip(a)
          /\ lease_of' = [lease_of EXCEPT ![a] = None]
    /\ OnlyLease

NextLease ==
    \/ AllocateFixed
    \/ DeallocateFixed
    \/ LeaseFixedFor
    \/ ReleaseFixedFor

SpecLease == Init /\ [][NextLease]_vars

(***************************************************************************)
(* VlanNetworkService.setup_fixed_ip                                       *)
(***************************************************************************)
\* db.fixed_ip_instance_associate on the reserved VPN address of network n
db_vpn_ip_instance_associate(n, i) == [vpn_instance EXCEPT ![n] = i]
driver_ensure_vlan_forward(public_ip, port, private_ip) ==
    vlan_forwards \cup {<<public_ip, port, private_ip>>}
EnsureVlanForwardCall(n) ==
    <<"ensure_vlan_forward", vpn_public_ip_str(n), vpn_public_port(n),
      vpn_private_ip_str(n)>>

\* variant: the VPN endpoint gets its address from the pool like any instance
setup_fixed_ip_from_pool(p, i) ==
    LET network_id == project_get_network(p) IN
    /\ kind = "vlan"
    /\ \E address \in PoolOf(network_id) :
          /\ fixed_allocated' = db_fixed_ip_allocate_address(address)
          /\ fixed_instance' = db_fixed_ip_instance_associate(address, i)
          /\ ret' = Ret("setup_fixed_ip", p, i, None, address)
    /\ CountAlloc(network_id)
    /\ UNCHANGED <<fixed_leased, vpnVars>>

setup_fixed_ip(p, i) ==
    LET network_id == project_get_network(p) IN
    /\ kind = "vlan"
    /\ IF db_instance_is_vpn(i)
       THEN LET address == db_network_get_vpn_ip_address(network_id) IN
            /\ vpn_instance' = db_vpn_ip_instance_associate(network_id, i)
            /\ vlan_forwards' =
                  driver_ensure_vlan_forward(vpn_public_ip_str(network_id),
                                             vpn_public_port(network_id),
                                             vpn_private_ip_str(network_id))
            /\ setup_calls' = <<EnsureVlanForwardCall(network_id)>>
            /\ ret' = Ret("setup_fixed_ip", p, i, None, address)
            /\ UNCHANGED <<fixedVars, ghostFixed>>
       ELSE \* parent.allocate_fixed_ip(project_id, instance_id, context)
            /\ IF Available(network_id) = {}
               THEN /\ ret' = Ret("setup_fixed_ip", p, i, None,
                                  AddressSpaceExhausted)
                    /\ UNCHANGED <<fixedVars, ghostFixed>>
               ELSE \E address \in Available(network_id) :
                    /\ fixed_allocated' = db_fixed_ip_allocate_address(address)
                    /\ fixed_instance' =
                          db_fixed_ip_instance_associate(address, i)
                    /\ UNCHANGED fixed_leased
                    /\ CountAlloc(network_id)
                    /\ ret' = Ret("setup_fixed_ip", p, i, None, address)
            /\ setup_calls' = <<>>
            /\ UNCHANGED <<vpn_instance, vlan_forwards>>

OnlySetup ==
    UNCHANGED <<kind, floatVars, hostVars, stepVars, regVars, lease_of, trip>>

SetupFixed ==
    /\ \E p \in Projects, i \in Instances \cup VpnInstances :
          setup_fixed_ip(p, i)
    /\ OnlySetup

NextSetup ==
    \/ SetupFixed
    \/ AllocateFixed
    \/ DeallocateFixed

SpecSetup == Init /\ [][NextSetup]_vars

(***************************************************************************)
(* allocate_fixed_ip and the VPN branch of setup_fixed_ip when a           *)
(* collaborator call raises: the exception leaves the operation, which has *)
(* no handler.                                                             *)
(***************************************************************************)
allocate_fixed_ip_fails(p, i, step) ==
    LET network_id == project_get_network(p) IN
    /\ ret' = Ret("allocate_fixed_ip", p, i, None, Failed(step))
    /\ IF step = "fixed_ip_allocate_address"
       THEN UNCHANGED <<fixedVars, ghostFixed>>
       ELSE \* db.fixed_ip_instance_associate raises after the allocation
            \E address \in Available(network_id) :
               /\ fixed_allocated' = db_fixed_ip_allocate_address(address)
               /\ UNCHANGED <<fixed_leased, fixed_instance>>
               /\ CountAlloc(network_id)

\* variant: the association is undone when the driver's forward raises
setup_fixed_ip_fails_rollback(p, i, step) ==
    LET network_id == project_get_network(p) IN
    /\ kind = "vlan"
    /\ db_instance_is_vpn(i)
    /\ ret' = Ret("setup_fixed_ip", p, i, None, Failed(step))
    /\ vpn_instance' = [vpn_instance EXCEPT ![network_id] = None]
    /\ setup_calls' = <<>>
    /\ UNCHANGED <<vlan_forwards, fixedVars, ghostFixed>>

setup_fixed_ip_fails(p, i, step) ==
    LET network_id == project_get_network(p) IN
    /\ kind = "vlan"
    /\ db_instance_is_vpn(i)
    /\ ret' = Ret("setup_fixed_ip", p, i, None, Failed(step))
    /\ IF step = "ensure_vlan_forward"
       THEN vpn_instance' = db_vpn_ip_instance_associate(network_id, i)
       ELSE UNCHANGED vpn_instance
    /\ setup_calls' = <<>>
    /\ UNCHANGED <<vlan_forwards, fixedVars, ghostFixed>>

AllocateSteps == {"fixed_ip_allocate_address", "fixed_ip_instance_associate"}
VpnSteps ==
    {"network_get_vpn_ip_address", "fixed_ip_instance_associate",
     "ensure_vlan_forward"}

AllocateFixedFails ==
    /\ \E p \in Projects, i \in Instances, step \in AllocateSteps :
          allocate_fixed_ip_fails(p, i, step)
    /\ OnlyFixed
SetupFixedFails ==
    /\ \E p \in Projects, i \in VpnInstances, step \in VpnSteps :
          setup_fixed_ip_fails(p, i, step)
    /\ OnlySetup

NextSetupFail ==
    \/ NextSetup
    \/ AllocateFixedFails
    \/ SetupFixedFails

SpecSetupFail == Init /\ [][NextSetupFail]_vars

(***************************************************************************)
(* The ledger's calls on floating addresses (nova.db), each atomic, and    *)
(* the driver's commands (nova.network.linux_net), idempotent ensure and   *)
(* remove operations.                                                      *)
(***************************************************************************)
\* The floating addresses db.floating_ip_allocate_address can reserve.
Unused == {f \in FloatingIPs : floating_project[f] = None}
db_floating_ip_allocate_address(f, p) == [floating_project EXCEPT ![f] = p]
db_floating_ip_fixed_ip_associate(f, x) == [floating_fixed EXCEPT ![f] = x]
\* db.floating_ip_disassociate clears the association (and returns the
\* fixed address it held, floating_fixed[f])
db_floating_ip_disassociate(f) == [floating_fixed EXCEPT ![f] = None]
db_floating_ip_deallocate(f) == [floating_project EXCEPT ![f] = None]

driver_bind_floating_ip(f) == bound \cup {f}
driver_unbind_floating_ip(f) == bound \ {f}
driver_ensure_floating_forward(fw, f, x) == fw \cup {<<f, x>>}
driver_remove_floating_forward(fw, f, x) == fw \ {<<f, x>>}

\* Progress of the round trip allocate, associate, disassociate, deallocate
\* on a floating address: an operation advances it when it is the next of
\* the four, and anything else starts over.
Advance(f, from, to) ==
    trip' = [trip EXCEPT ![f] = IF @ = from THEN to ELSE "none"]

(***************************************************************************)
(* BaseNetworkService.allocate_floating_ip                                 *)
(***************************************************************************)
allocate_floating_ip(p) ==
    IF Unused = {}
    THEN /\ ret' = Ret("allocate_floating_ip", p, None, None,
                       AddressSpaceExhausted)
         /\ UNCHANGED <<floatVars, trip>>
    ELSE \E f \in Unused :
         /\ floating_project' = db_floating_ip_allocate_address(f, p)
         /\ UNCHANGED <<floating_fixed, bound, forwards>>
         /\ trip' = [trip EXCEPT ![f] = "allocated"]
         /\ ret' = Ret("allocate_floating_ip", p, None, None, f)

(***************************************************************************)
(* BaseNetworkService.associate_floating_ip                                *)
(***************************************************************************)
associate_floating_ip(floating_address, fixed_address) ==
    /\ floating_fixed' =
          db_floating_ip_fixed_ip_associate(floating_address, fixed_address)
    /\ bound' = driver_bind_floating_ip(floating_address)
    /\ forwards' = driver_ensure_floating_forward(forwards, floating_address,
                                                  fixed_address)
    /\ UNCHANGED floating_project
    /\ Advance(floating_address, "allocated", "associated")
    /\ ret' = Ret("associate_floating_ip", None, None, floating_address, OK)

(***************************************************************************)
(* BaseNetworkService.disassociate_floating_ip                             *)
(***************************************************************************)
disassociate_floating_ip(floating_address) ==
    IF floating_project[floating_address] = None
    THEN \* db.floating_ip_disassociate raises: no driver command is issued
         /\ ret' = Ret("disassociate_floating_ip", None, None,
                       floating_address, AddressNotAllocated)
         /\ trip' = [trip EXCEPT ![floating_address] = "none"]
         /\ UNCHANGED floatVars
    ELSE LET fixed_address == floating_fixed[floating_address] IN
         /\ floating_fixed' = db_floating_ip_disassociate(floating_address)
         /\ bound' = driver_unbind_floating_ip(floating_address)
         /\ forwards' = driver_remove_floating_forward(forwards,
                                            floating_address, fixed_address)
         /\ UNCHANGED floating_project
         /\ Advance(floating_address, "associated", "disassociated")
         /\ ret' = Ret("disassociate_floating_ip", None, None,
                       floating_address, OK)

(***************************************************************************)
(* BaseNetworkService.deallocate_floating_ip                               *)
(***************************************************************************)
deallocate_floating_ip(floating_address) ==
    IF floating_project[floating_address] = None
    THEN \* db.floating_ip_deallocate raises
         /\ ret' = Ret("deallocate_floating_ip", None, None,
                       floating_address, AddressNotAllocated)
         /\ trip' = [trip EXCEPT ![floating_address] = "none"]
         /\ UNCHANGED floatVars
    ELSE /\ floating_project' = db_floating_ip_deallocate(floating_address)
         /\ UNCHANGED <<floating_fixed, bound, forwards>>
         /\ Advance(floating_address, "disassociated", "done")
         /\ ret' = Ret("deallocate_floating_ip", None, None,
                       floating_address, OK)

(***************************************************************************)
(* The callers of the floating-address operations.  A floating address is  *)
(* associated by a caller that holds it (allocate_floating_ip returned it  *)
(* and it was not deallocated since).                                      *)
(***************************************************************************)
OnlyFloating ==
    UNCHANGED <<kind, fixedVars, vpnVars, ghostFixed, hostVars, stepVars,
                regVars, lease_of>>

AllocateFloating ==
    /\ \E p \in Projects : allocate_floating_ip(p)
    /\ OnlyFloating
AssociateFloating ==
    /\ \E f \in FloatingIPs, x \in FixedIPs :
          floating_project[f] # None /\ associate_floating_ip(f, x)
    /\ OnlyFloating
DisassociateFloating ==
    /\ \E f \in FloatingIPs : disassociate_floating_ip(f)
    /\ OnlyFloating
DeallocateFloating ==
    /\ \E f \in FloatingIPs : deallocate_floating_ip(f)
    /\ OnlyFloating

NextFloating ==
    \/ AllocateFloating
    \/ AssociateFloating
    \/ DisassociateFloating
    \/ DeallocateFloating

SpecFloating == Init /\ [][NextFloating]_vars

(***************************************************************************)
(* BaseNetworkService.set_network_host, one step per collaborator call.    *)
(* Every host runs one network service (FLAGS.node_name is the host), and  *)
(* the services of different hosts run concurrently.                       *)
(***************************************************************************)
\* db.network_set_host: one atomic conditional update; the host is written
\* when the network has none, and the recorded host is returned.
db_network_set_host(n, h) ==
    IF network_host[n] = None THEN [network_host EXCEPT ![n] = h]
    ELSE network_host

\* network_ref = db.project_get_network(context, project_id)
\* network_id = network_ref['id']
set_network_host_get_network(h, p) ==
    /\ pc[h] = "idle"
    /\ pc' = [pc EXCEPT ![h] = "set_host"]
    /\ snh_project' = [snh_project EXCEPT ![h] = p]
    /\ snh_network' = [snh_network EXCEPT ![h] = project_get_network(p)]
    /\ snh_host' = [snh_host EXCEPT ![h] = None]
    /\ snh_result' = [snh_result EXCEPT ![h] = None]
    /\ snh_log' = [snh_log EXCEPT ![h] = <<>>]
    /\ hook_rerun' = [hook_rerun EXCEPT ![h] = FALSE]
    /\ UNCHANGED <<network_host, network_fields, bridges, ret>>

\* host = db.network_set_host(context, network_id, FLAGS.node_name)
set_network_host_set_host(h) ==
    /\ pc[h] = "set_host"
    /\ network_host' = db_network_set_host(snh_network[h], h)
    /\ snh_host' = [snh_host EXCEPT ![h] = network_host'[snh_network[h]]]
    /\ pc' = [pc EXCEPT ![h] = "hook"]
    /\ snh_log' = [snh_log EXCEPT ![h] =
                      Append(@, <<"network_set_host", snh_network[h]>>)]
    /\ UNCHANGED <<network_fields, bridges, snh_project, snh_network,
                   snh_result, hook_rerun, ret>>

\* variant: the Flat hook records the static fields without marking the
\* network injected
Flat_on_set_network_host_uninjected(h, network_id) ==
    /\ network_fields' = [network_fields EXCEPT ![network_id] =
          [injected |-> FALSE,
           kind |-> FLAGS_network_type,
           network_str |-> FLAGS_flat_network_network,
           netmask |-> FLAGS_flat_network_netmask,
           bridge |-> FLAGS_flat_network_bridge,
           gateway |-> FLAGS_flat_network_gateway,
           broadcast |-> FLAGS_flat_network_broadcast,
           dns |-> FLAGS_flat_network_dns]]
    /\ snh_log' = [snh_log EXCEPT ![h] =
                      Append(@, <<"network_update", network_id>>)]
    /\ UNCHANGED bridges

\* variant: the Vlan hook ensures the bridges of every network
Vlan_on_set_network_host_all(h, network_id) ==
    /\ bridges' = [bridges EXCEPT ![h] =
                      @ \cup {<<VlanOf(n), BridgeOf(n)>> : n \in Networks}]
    /\ snh_log' = [snh_log EXCEPT ![h] =
                      Append(@, <<"ensure_vlan_bridge", VlanOf(network_id),
                                  BridgeOf(network_id)>>)]
    /\ UNCHANGED network_fields

\* FlatNetworkService._on_set_network_host
Flat_on_set_network_host(h, network_id) ==
    /\ network_fields' = [network_fields EXCEPT ![network_id] =
          [injected |-> TRUE,
           kind |-> FLAGS_network_type,
           network_str |-> FLAGS_flat_network_network,
           netmask |-> FLAGS_flat_network_netmask,
           bridge |-> FLAGS_flat_network_bridge,
           gateway |-> FLAGS_flat_network_gateway,
           broadcast |-> FLAGS_flat_network_broadcast,
           dns |-> FLAGS_flat_network_dns]]
    /\ snh_log' = [snh_log EXCEPT ![h] =
                      Append(@, <<"network_update", network_id>>)]
    /\ UNCHANGED bridges

\* VlanNetworkService._on_set_network_host
Vlan_on_set_network_host(h, network_id) ==
    /\ bridges' = [bridges EXCEPT ![h] =
                      @ \cup {<<VlanOf(network_id), BridgeOf(network_id)>>}]
    /\ snh_log' = [snh_log EXCEPT ![h] =
                      Append(@, <<"ensure_vlan_bridge", VlanOf(network_id),
                                  BridgeOf(network_id)>>)]
    /\ UNCHANGED network_fields

\* Host h has run the hook of the service class for the network before.
HookDone(h, network_id) ==
    IF kind = "vlan"
    THEN <<VlanOf(network_id), BridgeOf(network_id)>> \in bridges[h]
    ELSE network_fields[network_id].injected

\* self._on_set_network_host(context, network_id)
set_network_host_hook(h) ==
    /\ pc[h] = "hook"
    /\ IF kind = "vlan"
       THEN Vlan_on_set_network_host(h, snh_network[h])
       ELSE Flat_on_set_network_host(h, snh_network[h])
    /\ pc' = [pc EXCEPT ![h] = "return"]
    /\ hook_rerun' = [hook_rerun EXCEPT ![h] = HookDone(h, snh_network[h])]
    /\ UNCHANGED <<network_host, snh_project, snh_network, snh_host,
                   snh_result, ret>>

\* set_network_host that returns its own node name, not the ledger's answer
set_network_host_return_self(h) ==
    /\ pc[h] = "return"
    /\ snh_result' = [snh_result EXCEPT ![h] = h]
    /\ pc' = [pc EXCEPT ![h] = "idle"]
    /\ ret' = Ret("set_network_host", snh_project[h], None, None, h)
    /\ UNCHANGED <<network_host, network_fields, bridges, snh_project,
                   snh_network, snh_host, snh_log, hook_rerun>>

\* return host
set_network_host_return(h) ==
    /\ pc[h] = "return"
    /\ snh_result' = [snh_result EXCEPT ![h] = snh_host[h]]
    /\ pc' = [pc EXCEPT ![h] = "idle"]
    /\ ret' = Ret("set_network_host", snh_project[h], None, None, snh_host[h])
    /\ UNCHANGED <<network_host, network_fields, bridges, snh_project,
                   snh_network, snh_host, snh_log, hook_rerun>>


\* db.network_set_host raises: the update is not made, the exception leaves
\* set_network_host and the lines after the call do not run
set_network_host_set_host_fails(h) ==
    /\ pc[h] = "set_host"
    /\ pc' = [pc EXCEPT ![h] = "idle"]
    /\ ret' = Ret("set_network_host", snh_project[h], None, None,
                  Failed("network_set_host"))
    /\ UNCHANGED <<network_host, network_fields, bridges, snh_project,
                   snh_network, snh_host, snh_result, snh_log, hook_rerun>>

\* set_network_host that undoes the ledger's update when the hook raises
set_network_host_hook_fails_rollback(h) ==
    /\ pc[h] = "hook"
    /\ pc' = [pc EXCEPT ![h] = "idle"]
    /\ network_host' = [network_host EXCEPT ![snh_network[h]] = None]
    /\ ret' = Ret("set_network_host", snh_project[h], None, None,
                  Failed("_on_set_network_host"))
    /\ UNCHANGED <<network_fields, bridges, snh_project,
                   snh_network, snh_host, snh_result, snh_log, hook_rerun>>

\* self._on_set_network_host raises (its ledger or driver call failed): the
\* exception leaves set_network_host, which has no handler for it
set_network_host_hook_fails(h) ==
    /\ pc[h] = "hook"
    /\ pc' = [pc EXCEPT ![h] = "idle"]
    /\ ret' = Ret("set_network_host", snh_project[h], None, None,
                  Failed("_on_set_network_host"))
    /\ UNCHANGED <<network_host, network_fields, bridges, snh_project,
                   snh_network, snh_host, snh_result, snh_log, hook_rerun>>

OnlyHost ==
    UNCHANGED <<kind, fixedVars, vpnVars, ghostFixed, floatVars, stepVars,
                regVars, lease_of, trip>>

SetNetworkHostCall ==
    /\ \E h \in Hosts, p \in Projects : set_network_host_get_network(h, p)
    /\ OnlyHost
SetNetworkHostSetHost ==
    /\ \E h \in Hosts : set_network_host_set_host(h)
    /\ OnlyHost
SetNetworkHostHook ==
    /\ \E h \in Hosts : set_network_host_hook(h)
    /\ OnlyHost
SetNetworkHostReturn ==
    /\ \E h \in Hosts : set_network_host_return(h)
    /\ OnlyHost

NextHost ==
    \/ SetNetworkHostCall
    \/ SetNetworkHostSetHost
    \/ SetNetworkHostHook
    \/ SetNetworkHostReturn

SpecHost == Init /\ [][NextHost]_vars

\* set_network_host with collaborator calls that may fail
SetNetworkHostSetHostFails ==
    /\ \E h \in Hosts : set_network_host_set_host_fails(h)
    /\ OnlyHost
SetNetworkHostHookFails ==
    /\ \E h \in Hosts : set_network_host_hook_fails(h)
    /\ OnlyHost

NextHostFail ==
    \/ SetNetworkHostCall
    \/ SetNetworkHostSetHost
    \/ SetNetworkHostHook
    \/ SetNetworkHostReturn
    \/ SetNetworkHostSetHostFails
    \/ SetNetworkHostHookFails

SpecHostFail == Init /\ [][NextHostFail]_vars

(***************************************************************************)
(* associate_floating_ip and disassociate_floating_ip, one step per        *)
(* collaborator call, run by concurrent callers that hold no lock.         *)
(***************************************************************************)
Begin(c, op, f) ==
    /\ fpc[c] = "idle"
    /\ f_calls[c] < MaxCalls
    /\ f_calls' = [f_calls EXCEPT ![c] = @ + 1]
    /\ f_op' = [f_op EXCEPT ![c] = op]
    /\ f_floating' = [f_floating EXCEPT ![c] = f]
    /\ n_assoc' = [n_assoc EXCEPT ![f] = IF op = "associate" THEN @ + 1 ELSE @]
    /\ n_dis' = [n_dis EXCEPT ![f] = IF op = "disassociate" THEN @ + 1 ELSE @]
Going(c, op, at) ==
    /\ fpc[c] = at
    /\ f_op[c] = op
    /\ UNCHANGED <<f_op, f_floating, f_fixed, f_calls, n_assoc, n_dis>>
Goto(c, to, status) ==
    /\ fpc' = [fpc EXCEPT ![c] = to]
    /\ f_status' = [f_status EXCEPT ![c] = status]
Log(c, call) == f_log' = [f_log EXCEPT ![c] = Append(@, call)]

\* db.floating_ip_fixed_ip_associate(context, floating_address, fixed_address)
associate_floating_ip_write(c, floating_address, fixed_address) ==
    /\ Begin(c, "associate", floating_address)
    /\ f_fixed' = [f_fixed EXCEPT ![c] = fixed_address]
    /\ floating_fixed' =
          db_floating_ip_fixed_ip_associate(floating_address, fixed_address)
    /\ f_log' = [f_log EXCEPT ![c] = << <<"floating_ip_fixed_ip_associate",
                                         floating_address, fixed_address>> >>]
    /\ Goto(c, "bind", "running")
    /\ UNCHANGED <<floating_project, bound, forwards>>

\* _driver.bind_floating_ip(floating_address)
associate_floating_ip_bind(c) ==
    /\ Going(c, "associate", "bind")
    /\ bound' = driver_bind_floating_ip(f_floating[c])
    /\ Log(c, <<"bind_floating_ip", f_floating[c]>>)
    /\ Goto(c, "forward", "running")
    /\ UNCHANGED <<floating_project, floating_fixed, forwards>>

\* _driver.ensure_floating_forward(floating_address, fixed_address)
associate_floating_ip_forward(c) ==
    /\ Going(c, "associate", "forward")
    /\ forwards' = driver_ensure_floating_forward(forwards, f_floating[c],
                                                  f_fixed[c])
    /\ Log(c, <<"ensure_floating_forward", f_floating[c], f_fixed[c]>>)
    /\ Goto(c, "idle", "returned")
    /\ UNCHANGED <<floating_project, floating_fixed, bound>>

\* fixed_address = db.floating_ip_disassociate(context, floating_address)
disassociate_floating_ip_clear(c, floating_address) ==
    /\ Begin(c, "disassociate", floating_address)
    /\ IF floating_project[floating_address] = None
       THEN \* the ledger raises AddressNotAllocated
            /\ f_fixed' = [f_fixed EXCEPT ![c] = None]
            /\ f_log' = [f_log EXCEPT ![c] = <<>>]
            /\ Goto(c, "idle", "raised")
            /\ UNCHANGED floatVars
       ELSE /\ f_fixed' = [f_fixed EXCEPT ![c] = floating_fixed[floating_address]]
            /\ floating_fixed' = db_floating_ip_disassociate(floating_address)
            /\ f_log' = [f_log EXCEPT ![c] = << <<"floating_ip_disassociate",
                            floating_address,
                            floating_fixed[floating_address]>> >>]
            /\ Goto(c, "unbind", "running")
            /\ UNCHANGED <<floating_project, bound, forwards>>

\* _driver.unbind_floating_ip(floating_address)
disassociate_floating_ip_unbind(c) ==
    /\ Going(c, "disassociate", "unbind")
    /\ bound' = driver_unbind_floating_ip(f_floating[c])
    /\ Log(c, <<"unbind_floating_ip", f_floating[c]>>)
    /\ Goto(c, "remove", "running")
    /\ UNCHANGED <<floating_project, floating_fixed, forwards>>

\* _driver.remove_floating_forward(floating_address, fixed_address)
disassociate_floating_ip_remove(c) ==
    /\ Going(c, "disassociate", "remove")
    /\ forwards' = driver_remove_floating_forward(forwards, f_floating[c],
                                                  f_fixed[c])
    /\ Log(c, <<"remove_floating_forward", f_floating[c], f_fixed[c]>>)
    /\ Goto(c, "idle", "returned")
    /\ UNCHANGED <<floating_project, floating_fixed, bound>>

OnlySteps ==
    UNCHANGED <<kind, fixedVars, vpnVars, ghostFixed, hostVars, regVars,
                lease_of, trip, ret>>

AssociateWrite ==
    /\ \E c \in Callers, f \in FloatingIPs, x \in PoolOf(NetA) :
          floating_project[f] # None /\ associate_floating_ip_write(c, f, x)
    /\ OnlySteps
AssociateBind ==
    /\ \E c \in Callers : associate_floating_ip_bind(c)
    /\ OnlySteps
AssociateForward ==
    /\ \E c \in Callers : associate_floating_ip_forward(c)
    /\ OnlySteps
DisassociateClear ==
    /\ \E c \in Callers, f \in FloatingIPs : disassociate_floating_ip_clear(c, f)
    /\ OnlySteps
DisassociateUnbind ==
    /\ \E c \in Callers : disassociate_floating_ip_unbind(c)
    /\ OnlySteps
DisassociateRemove ==
    /\ \E c \in Callers : disassociate_floating_ip_remove(c)
    /\ OnlySteps

NextFloatingSteps ==
    \/ AllocateFloating
    \/ AssociateWrite
    \/ AssociateBind
    \/ AssociateForward
    \/ DisassociateClear
    \/ DisassociateUnbind
    \/ DisassociateRemove

SpecFloatingSteps == Init /\ [][NextFloatingSteps]_vars

(***************************************************************************)
(* The same operations when a collaborator call raises: the exception      *)
(* leaves the operation, which has no handler.                             *)
(***************************************************************************)
\* the first call of the operation, a ledger write, raises
floating_ip_ledger_fails(c, op, f) ==
    /\ Begin(c, op, f)
    /\ f_fixed' = [f_fixed EXCEPT ![c] = None]
    /\ f_log' = [f_log EXCEPT ![c] = <<>>]
    /\ Goto(c, "idle", "raised")
    /\ UNCHANGED floatVars

\* variant: the handler undoes the ledger write before the exception leaves
floating_ip_driver_fails_rollback(c) ==
    /\ fpc[c] # "idle"
    /\ Goto(c, "idle", "raised")
    /\ floating_fixed' = [floating_fixed EXCEPT ![f_floating[c]] = None]
    /\ UNCHANGED <<floating_project, bound, forwards>>
    /\ UNCHANGED <<f_op, f_floating, f_fixed, f_log, f_calls, n_assoc, n_dis>>

\* the driver call the operation is about to make raises
floating_ip_driver_fails(c) ==
    /\ fpc[c] # "idle"
    /\ Goto(c, "idle", "raised")
    /\ UNCHANGED floatVars
    /\ UNCHANGED <<f_op, f_floating, f_fixed, f_log, f_calls, n_assoc, n_dis>>

FloatingLedgerFails ==
    /\ \E c \in Callers, op \in {"associate", "disassociate"},
          f \in FloatingIPs : floating_ip_ledger_fails(c, op, f)
    /\ OnlySteps
FloatingDriverFails ==
    /\ \E c \in Callers : floating_ip_driver_fails(c)
    /\ OnlySteps

NextFloatingStepsFail ==
    \/ NextFloatingSteps
    \/ FloatingLedgerFails
    \/ FloatingDriverFails

SpecFloatingStepsFail == Init /\ [][NextFloatingStepsFail]_vars

(***************************************************************************)
(* type_to_class: the handler class of a network_type string               *)
(***************************************************************************)
\* network_type strings: the two supported ones, the empty string and others
Str(s) == <<"str", s>>
NetworkTypes ==
    {Str("flat"), Str("vlan"), Str(""), Str("Flat"), Str("VLAN"),
     Str("flatdhcp"), Str("bogus")}
FlatNetworkService == <<"class", "FlatNetworkService">>
VlanNetworkService == <<"class", "VlanNetworkService">>
NotFound == <<"exception", "NotFound">>
\* Python truth value of a string or None
Truthy(s) == s # None /\ s # Str("")

\* variant: an identifier that is not known falls back to the Flat class
type_to_class_lenient(network_type, FLAGS_type) ==
    LET t == IF ~Truthy(network_type) THEN FLAGS_type ELSE network_type IN
    IF t = Str("vlan") THEN VlanNetworkService ELSE FlatNetworkService

type_to_class(network_type, FLAGS_type) ==
    LET t == IF ~Truthy(network_type) THEN FLAGS_type ELSE network_type IN
    IF t = Str("flat") THEN FlatNetworkService
    ELSE IF t = Str("vlan") THEN VlanNetworkService
    ELSE NotFound

TypeToClass ==
    /\ \E network_type \in NetworkTypes \cup {None}, flag \in NetworkTypes :
          /\ tc_type' = network_type
          /\ tc_flag' = flag
          /\ tc_result' = type_to_class(network_type, flag)
    /\ UNCHANGED <<kind, fixedVars, vpnVars, ghostFixed, floatVars, hostVars,
                   stepVars, lease_of, trip, ret>>

NextRegistry == TypeToClass

SpecRegistry == Init /\ [][NextRegistry]_vars

(***************************************************************************)
(* The whole service: every operation, without failing collaborators.      *)
(***************************************************************************)
Next ==
    \/ AllocateFixed
    \/ DeallocateFixed
    \/ LeaseFixed
    \/ ReleaseFixed
    \/ AllocateFloating
    \/ AssociateFloating
    \/ DisassociateFloating
    \/ DeallocateFloating
    \/ SetNetworkHostCall
    \/ SetNetworkHostSetHost
    \/ SetNetworkHostHook
    \/ SetNetworkHostReturn
    \/ SetupFixed
    \/ TypeToClass

Spec == Init /\ [][Next]_vars

(***************************************************************************)
(* Claims on the fixed-address lifecycle, checked under SpecFixed.         *)
(***************************************************************************)
\* The step just taken is operation op (ret' names it).
Did(op) == ret'.op = op
AllocatedTo(a, i) ==
    Did("allocate_fixed_ip") /\ ret'.val = a /\ ret'.instance = i

\* C1: allocate_fixed_ip never returns an address that the ledger records,
\* at the time of the call, as associated with another instance.
C1_AllocateNeverReturnsAssociated ==
    [][\A a \in FixedIPs, i \in Instances :
          AllocatedTo(a, i) => fixed_instance[a] \in {None, i}]_vars

\* C2: in the Vlan service, deallocate_fixed_ip on a leased address removes
\* its allocation and leaves its instance association unchanged, and the
\* association stays until release_fixed_ip is called on the address;
\* on a non-leased address the call clears the association.
AwaitingRelease(a) == fixed_leased[a] /\ ~fixed_allocated[a]
C2_DeallocateLeasedKeepsAssociationUntilRelease ==
    [][kind = "vlan" =>
         \A a \in FixedIPs :
           /\ (Did("deallocate_fixed_ip") /\ ret'.addr = a /\ fixed_leased[a])
                 => (~fixed_allocated'[a]
                       /\ fixed_instance'[a] = fixed_instance[a])
           /\ (Did("deallocate_fixed_ip") /\ ret'.addr = a /\ ~fixed_leased[a])
                 => fixed_instance'[a] = None
           /\ (AwaitingRelease(a)
                 /\ ~(Did("release_fixed_ip") /\ ret'.addr = a))
                 => fixed_instance'[a] = fixed_instance[a]]_vars

\* C3: in the Vlan service, deallocate_fixed_ip on an allocated, non-leased
\* address leaves it unallocated (available in the pool) with no instance.
C3_DeallocateNotLeasedReturnsToPool ==
    [][kind = "vlan" =>
         \A a \in FixedIPs :
           (Did("deallocate_fixed_ip") /\ ret'.addr = a
              /\ fixed_allocated[a] /\ ~fixed_leased[a])
           => (a \in Available(NetworkOf(a))' /\ fixed_instance'[a] = None)]_vars

\* C4: in the Vlan service, release_fixed_ip on a leased address leaves it
\* not leased, without instance and available in the pool, whether or not
\* deallocate_fixed_ip was called on it before.
C4_ReleaseLeasedReturnsToPool ==
    [][kind = "vlan" =>
         \A a \in FixedIPs :
           (Did("release_fixed_ip") /\ ret'.addr = a /\ fixed_leased[a])
           => (/\ ~fixed_leased'[a]
               /\ fixed_instance'[a] = None
               /\ a \in Available(NetworkOf(a))')]_vars

\* C5: no address is at once leased and available in the pool.
C5_NeverLeasedAndAvailable ==
    \A a \in FixedIPs : ~(fixed_leased[a] /\ a \in Available(NetworkOf(a)))

\* C6: from a full pool of N addresses and with no deallocation in between,
\* allocate_fixed_ip succeeds exactly N times; the next call fails with the
\* exhaustion error and changes nothing in the ledger.
C6_ExhaustionAfterPoolSize ==
    [][\A p \in Projects :
         LET n == project_get_network(p) IN
         (Did("allocate_fixed_ip") /\ ret'.project = p /\ fresh[n]) =>
            /\ nalloc[n] < Cardinality(PoolOf(n)) =>
                  (ret'.val \in PoolOf(n) /\ nalloc'[n] = nalloc[n] + 1)
            /\ nalloc[n] >= Cardinality(PoolOf(n)) =>
                  (/\ nalloc[n] = Cardinality(PoolOf(n))
                   /\ ret'.val = AddressSpaceExhausted
                   /\ UNCHANGED fixedVars)]_vars
\* the call after the N successful ones has failed
C6_Witness ==
    /\ ret.op = "allocate_fixed_ip"
    /\ ret.val = AddressSpaceExhausted
    /\ ret.project = TenantA
    /\ fresh[NetA]
    /\ nalloc[NetA] = PoolSize

(***************************************************************************)
(* Claims on the floating-address lifecycle, checked under SpecFloating.   *)
(***************************************************************************)
ForwardsOf(f) == {x \in FixedIPs : <<f, x>> \in forwards}
\* nothing of floating address f is left in the ledger or in the driver
Clean(f) ==
    /\ floating_fixed[f] = None
    /\ f \notin bound
    /\ ForwardsOf(f) = {}

\* C7: after allocate_floating_ip, associate_floating_ip,
\* disassociate_floating_ip and deallocate_floating_ip ran in that order on
\* a floating address, each succeeding, the address is available again, has
\* no fixed-address association and is neither bound nor forwarded.
C7_RoundTripRestores ==
    \A f \in FloatingIPs :
        trip[f] = "done" => (floating_project[f] = None /\ Clean(f))

\* C8: a floating address that is unallocated has no fixed-address
\* association in the ledger and is neither bound nor forwarded in the
\* driver; deallocate_floating_ip on an unallocated address fails with
\* AddressNotAllocated.
C8_DisassociationPrecedesDeallocation ==
    [][/\ \A f \in FloatingIPs : (floating_project[f] = None => Clean(f))'
       /\ \A f \in FloatingIPs :
            (Did("deallocate_floating_ip") /\ ret'.addr = f
               /\ floating_project[f] = None)
            => ret'.val = AddressNotAllocated]_vars

\* C9: the driver forwards a floating address to at most one fixed
\* address, the one the ledger records for it.
C9_AtMostOneFixedPerFloating ==
    \A f \in FloatingIPs :
        /\ Cardinality(ForwardsOf(f)) <= 1
        /\ \A x \in ForwardsOf(f) : floating_fixed[f] = x

(***************************************************************************)
(* Claims on host assignment, checked under SpecHost.                      *)
(***************************************************************************)
\* the calls of set_network_host that have returned
ReturnedCall(h) == pc[h] = "idle" /\ snh_result[h] # None

\* C10: under every interleaving of set_network_host calls of different
\* hosts, the owner the ledger records for a network is never replaced by
\* another host, and every call returns the host the ledger holds as owner
\* (so all calls for a network return the same host).
C10_NoLostOwner ==
    [][/\ \A n \in Networks :
            network_host[n] # None => network_host'[n] = network_host[n]
       /\ \A h \in Hosts :
            ReturnedCall(h)' => snh_result'[h] = network_host'[snh_network'[h]]
       /\ \A h, g \in Hosts :
            (ReturnedCall(h)' /\ ReturnedCall(g)'
               /\ snh_network'[h] = snh_network'[g])
            => snh_result'[h] = snh_result'[g]]_vars
\* two hosts raced for the same network and both calls have returned, one of
\* them to the host that lost the race
C10_Witness ==
    \E h, g \in Hosts :
        /\ h # g
        /\ ReturnedCall(h) /\ ReturnedCall(g)
        /\ snh_network[h] = snh_network[g]
        /\ snh_result[h] = h
        /\ snh_result[g] = h


(***************************************************************************)
(* Claims on failures in host assignment, checked under SpecHostFail.      *)
(***************************************************************************)
HookCalls == {"network_update", "ensure_vlan_bridge"}
RanHook(log) == \E k \in 1..Len(log) : log[k][1] \in HookCalls

\* C11: when the ledger's set-host update fails, the call ends without the
\* hook having run and without any driver command or network-field update;
\* when the hook fails, the owner the ledger recorded stays recorded.
C11_FailureOrder ==
    [][\A h \in Hosts :
         /\ (pc[h] = "set_host" /\ pc'[h] = "idle")
               => (/\ ~RanHook(snh_log'[h])
                   /\ bridges' = bridges
                   /\ network_fields' = network_fields
                   /\ network_host' = network_host)
         /\ (pc[h] = "hook" /\ pc'[h] = "idle")
               => (/\ network_host[snh_network[h]] # None
                   /\ network_host' = network_host)]_vars
\* the hook failed for the host that the ledger had just recorded as owner:
\* ownership is recorded and nothing is provisioned
C11_Witness ==
    \E h \in Hosts :
        /\ ret.op = "set_network_host"
        /\ ret.val = Failed("_on_set_network_host")
        /\ pc[h] = "idle"
        /\ snh_host[h] = h
        /\ network_host[snh_network[h]] = h
        /\ bridges[h] = {}
        /\ network_fields[snh_network[h]] = NoFields


IsPrefix(s, t) == Len(s) <= Len(t) /\ \A k \in 1..Len(s) : s[k] = t[k]
AssociateCalls(f, x) ==
    << <<"floating_ip_fixed_ip_associate", f, x>>,
       <<"bind_floating_ip", f>>,
       <<"ensure_floating_forward", f, x>> >>
DisassociateCalls(f, x) ==
    << <<"floating_ip_disassociate", f, x>>,
       <<"unbind_floating_ip", f>>,
       <<"remove_floating_forward", f, x>> >>
\* the calls operation op on f makes when nothing fails; the fixed address of
\* a disassociation is the one the ledger answered in its first call
ExpectedCalls(op, f, x, log) ==
    IF op = "associate"
    THEN AssociateCalls(f, x)
    ELSE IF log = <<>> THEN <<>>
         ELSE DisassociateCalls(f, log[1][3])

\* C12: the calls an associate_floating_ip has completed are always a prefix of
\* [ledger write, bind, ensure forward] and those of a disassociate_floating_ip
\* a prefix of [ledger clear, unbind, remove forward with the fixed address the
\* ledger returned]; an operation that returns has made all three; a failing
\* step ends the operation, adds no call and changes neither ledger nor driver
\* (the ledger write stays; a failing forward leaves the address bound and
\* unforwarded by this operation).
C12_OrderedEffects ==
    [][\A c \in Callers :
         /\ f_op'[c] # "none"
               => IsPrefix(f_log'[c], ExpectedCalls(f_op'[c], f_floating'[c],
                                                    f_fixed'[c], f_log'[c]))
         /\ (f_op'[c] # "none" /\ f_status'[c] = "returned")
               => f_log'[c] = ExpectedCalls(f_op'[c], f_floating'[c],
                                            f_fixed'[c], f_log'[c])
         /\ (f_status'[c] = "raised" /\ fpc[c] # "idle")
               => /\ fpc'[c] = "idle"
                  /\ f_log'[c] = f_log[c]
                  /\ floating_fixed' = floating_fixed
                  /\ bound' = bound
                  /\ forwards' = forwards
         /\ (f_status'[c] = "raised" /\ fpc[c] = "forward")
               => Len(f_log'[c]) = 2]_vars

\* an association whose forward step failed: the ledger records it, the address
\* is bound, no forward exists
C12_Witness ==
    \E c \in Callers :
        /\ f_op[c] = "associate"
        /\ f_status[c] = "raised"
        /\ Len(f_log[c]) = 2
        /\ floating_fixed[f_floating[c]] = f_fixed[c]
        /\ f_floating[c] \in bound
        /\ ForwardsOf(f_floating[c]) = {}


Raised(val) == val[1] = "error"
\* C13: when allocate_fixed_ip or the VPN branch of setup_fixed_ip stops at a
\* failing step, the ledger holds exactly the writes of the steps before it
\* (none for a failing pool allocation or VPN address lookup; the allocation of
\* one pool address, without an instance, for a failing association in
\* allocate_fixed_ip; the association of the VPN address for a failing VPN
\* forward), the driver gained no forward, and no address is returned.
C13_NoAdvancePastFailure ==
    [][LET op == ret'.op
           step == ret'.val[2]
           n == project_get_network(ret'.project)
       IN
       /\ (Did("allocate_fixed_ip") /\ ret'.val = AddressSpaceExhausted)
             => UNCHANGED <<fixedVars, vpnVars>>
       /\ (op \in {"allocate_fixed_ip", "setup_fixed_ip"} /\ Raised(ret'.val))
             => /\ ret'.val \notin FixedIPs \cup VpnIPs
                /\ vlan_forwards' = vlan_forwards
                /\ fixed_instance' = fixed_instance
                /\ fixed_leased' = fixed_leased
                /\ IF op = "allocate_fixed_ip"
                      /\ step = "fixed_ip_instance_associate"
                   THEN \E a \in Available(n) :
                           fixed_allocated' = [fixed_allocated EXCEPT ![a] = TRUE]
                   ELSE fixed_allocated' = fixed_allocated
                /\ IF op = "setup_fixed_ip" /\ step = "ensure_vlan_forward"
                   THEN vpn_instance' =
                           [vpn_instance EXCEPT ![n] = ret'.instance]
                   ELSE vpn_instance' = vpn_instance]_vars

\* a VPN setup stopped by the driver: the instance is recorded on the VPN
\* address, no forward exists, no address was returned
C13_Witness ==
    /\ ret.op = "setup_fixed_ip"
    /\ ret.val = Failed("ensure_vlan_forward")
    /\ vpn_instance[project_get_network(ret.project)] = ret.instance
    /\ vlan_forwards = {}
    /\ \E a \in FixedIPs : fixed_allocated[a] /\ fixed_instance[a] = None

\* C17: setup_fixed_ip of the Vlan service for a VPN endpoint returns the
\* network's reserved VPN private address, which is outside the pool, leaves
\* every pool address as it was, records the instance on the VPN address and
\* issues exactly ensure_vlan_forward(public ip, public port, private ip) of
\* that network; for any other instance it does what allocate_fixed_ip does
\* (an available address marked allocated and associated, or the exhaustion
\* error) and issues no driver call; allocate_fixed_ip never returns a
\* reserved VPN address.
C17_VpnSetup ==
    [][LET p == ret'.project
           i == ret'.instance
           n == project_get_network(p)
       IN
       /\ (Did("setup_fixed_ip") /\ i \in VpnInstances)
             => /\ ret'.val = vpn_private_ip_str(n)
                /\ ret'.val \notin PoolOf(n)
                /\ UNCHANGED fixedVars
                /\ {a \in PoolOf(n) : ~fixed_allocated'[a]} = Available(n)
                /\ vpn_instance'[n] = i
                /\ setup_calls' = <<EnsureVlanForwardCall(n)>>
                /\ <<vpn_public_ip_str(n), vpn_public_port(n),
                     vpn_private_ip_str(n)>> \in vlan_forwards'
       /\ (Did("setup_fixed_ip") /\ i \notin VpnInstances)
             => /\ setup_calls' = <<>>
                /\ UNCHANGED <<vpn_instance, vlan_forwards>>
                /\ IF Available(n) = {}
                   THEN /\ ret'.val = AddressSpaceExhausted
                        /\ UNCHANGED fixedVars
                   ELSE /\ ret'.val \in Available(n)
                        /\ fixed_allocated' =
                              [fixed_allocated EXCEPT ![ret'.val] = TRUE]
                        /\ fixed_instance' =
                              [fixed_instance EXCEPT ![ret'.val] = i]
                        /\ fixed_leased' = fixed_leased
       /\ Did("allocate_fixed_ip") => ret'.val \notin VpnIPs]_vars

\* a VPN endpoint holds the reserved address of a network whose pool also
\* served an ordinary instance through setup_fixed_ip
C17_Witness ==
    /\ ret.op = "setup_fixed_ip"
    /\ ret.instance \in VpnInstances
    /\ ret.val = db_network_get_vpn_ip_address(project_get_network(ret.project))
    /\ vpn_instance[project_get_network(ret.project)] = ret.instance
    /\ vlan_forwards # {}
    /\ \E a \in PoolOf(project_get_network(ret.project)) :
          fixed_allocated[a] /\ fixed_instance[a] \in Instances


\* the identifier type_to_class looks up: the argument, or the configured
\* default when the argument is empty or unset
Effective(network_type, flag) ==
    IF network_type \in {None, Str("")} THEN flag ELSE network_type
\* C14: type_to_class returns the Flat class for 'flat' and the Vlan class for
\* 'vlan', looks an empty or unset identifier up as the configured default, and
\* raises the unknown-topology error for every other identifier, an unsupported
\* configured default included; it changes no ledger or driver state.
C14_TotalLookup ==
    [][tc_type' # tc_type \/ tc_flag' # tc_flag \/ tc_result' # tc_result
          => /\ tc_result' =
                   CASE Effective(tc_type', tc_flag') = Str("flat")
                           -> FlatNetworkService
                     [] Effective(tc_type', tc_flag') = Str("vlan")
                           -> VlanNetworkService
                     [] OTHER -> NotFound
             /\ UNCHANGED <<fixedVars, vpnVars, floatVars, network_host,
                            network_fields, bridges>>]_vars

\* an unset identifier looked up under an unsupported configured default
C14_Witness ==
    /\ tc_type = None
    /\ tc_flag = Str("flatdhcp")
    /\ tc_result = NotFound


\* the driver commands among the collaborator calls of an operation
IsDriverCall(call) ==
    call[1] \in {"ensure_vlan_bridge", "ensure_vlan_forward",
                 "bind_floating_ip", "unbind_floating_ip",
                 "ensure_floating_forward", "remove_floating_forward"}
DriverCalls(log) == SelectSeq(log, IsDriverCall)
ConfiguredFields(f) ==
    /\ f.injected
    /\ f.bridge = FLAGS_flat_network_bridge
    /\ f.network_str = FLAGS_flat_network_network
    /\ f.netmask = FLAGS_flat_network_netmask
    /\ f.gateway = FLAGS_flat_network_gateway
    /\ f.broadcast = FLAGS_flat_network_broadcast
    /\ f.dns = FLAGS_flat_network_dns

\* C15: on the Flat service the hook of set_network_host writes the configured
\* bridge, network, netmask, gateway, broadcast and DNS and injected = true
\* into the record of the network being assigned and touches no other network
\* record, no driver state and no fixed or floating address record; when
\* set_network_host returns the record carries those values and the call has
\* issued no driver command.
C15_FlatStaticFields ==
    [][\A h \in Hosts : kind = "flat" =>
         /\ (pc[h] = "hook" /\ pc'[h] = "return")
               => /\ ConfiguredFields(network_fields'[snh_network[h]])
                  /\ \A n \in Networks \ {snh_network[h]} :
                        network_fields'[n] = network_fields[n]
                  /\ UNCHANGED <<bridges, fixedVars, vpnVars, floatVars>>
         /\ (pc[h] = "return" /\ pc'[h] = "idle")
               => /\ ConfiguredFields(network_fields'[snh_network[h]])
                  /\ DriverCalls(snh_log'[h]) = <<>>
                  /\ bridges'[h] = {}]_vars

\* a Flat host returned from set_network_host for netA while the record of
\* netB is still unwritten
C15_Witness ==
    \E h \in Hosts :
        /\ kind = "flat"
        /\ ReturnedCall(h)
        /\ snh_network[h] = NetA
        /\ network_fields[NetA].injected
        /\ network_fields[NetB] = NoFields

\* C16: on the Vlan service a set_network_host that returns has issued exactly
\* one driver command, ensure_vlan_bridge with the vlan tag and the bridge name
\* of the network being assigned; the hook adds that bridge on its host only,
\* and run again where the bridge exists it leaves the driver state as it was
\* and completes.
C16_OneBridgeCall ==
    [][\A h \in Hosts : kind = "vlan" =>
         LET n == snh_network[h]
             b == <<VlanOf(n), BridgeOf(n)>> IN
         /\ (pc[h] = "hook" /\ pc'[h] # "hook")
               => /\ pc'[h] = "return"
                  /\ bridges' = [bridges EXCEPT ![h] = bridges[h] \cup {b}]
                  /\ b \in bridges[h] => bridges' = bridges
                  /\ network_fields' = network_fields
         /\ (pc[h] = "return" /\ pc'[h] = "idle")
               => DriverCalls(snh_log'[h]) =
                     << <<"ensure_vlan_bridge", VlanOf(n), BridgeOf(n)>> >>]_vars

\* a Vlan host returned from a set_network_host whose hook found the bridge
\* of an earlier run, and holds that one bridge only
C16_Witness ==
    \E h \in Hosts :
        /\ kind = "vlan"
        /\ ReturnedCall(h)
        /\ hook_rerun[h]
        /\ bridges[h] = {<<VlanOf(snh_network[h]), BridgeOf(snh_network[h])>>}

\* C18: a caller of set_network_host for which the ledger's set-host call
\* returned another host runs no provisioning: its hook step issues no
\* ensure_vlan_bridge and no network-field update.
C18_OnlyOwnerProvisions ==
    [][\A h \in Hosts :
         (pc[h] = "hook" /\ pc'[h] = "return" /\ snh_host[h] # h)
            => /\ snh_log'[h] = snh_log[h]
               /\ bridges' = bridges
               /\ network_fields' = network_fields]_vars


\* one associate_floating_ip and one disassociate_floating_ip were called on
\* f, by different callers, and both have returned
BothCompleted(f) ==
    /\ n_assoc[f] = 1
    /\ n_dis[f] = 1
    /\ \A c \in Callers :
          f_floating[c] = f => fpc[c] = "idle" /\ f_status[c] = "returned"
\* C19: once an associate_floating_ip and a disassociate_floating_ip on the
\* same floating address have both completed, in whatever order their steps
\* ran, the driver agrees with the ledger: the address is bound and forwarded
\* to a fixed address exactly when the ledger records that association.
C19_DriverAgreesWithLedger ==
    \A f \in FloatingIPs :
        BothCompleted(f)
           => \A x \in FixedIPs :
                 floating_fixed[f] = x <=> (f \in bound /\ <<f, x>> \in forwards)


\* C20: in the Vlan service release_fixed_ip severs only the binding of the
\* instance whose lease is released: an instance that holds an address from
\* allocate_fixed_ip keeps its association when the bridge releases a lease
\* on that address that belongs to another instance.
C20_ReleaseSeversOwnBindingOnly ==
    [][\A a \in FixedIPs :
         (/\ Did("release_fixed_ip")
          /\ ret'.addr = a
          /\ fixed_allocated[a]
          /\ fixed_instance[a] # None
          /\ lease_of[a] # fixed_instance[a])
            => fixed_instance'[a] = fixed_instance[a]]_vars

=============================================================================
